---- MODULE Spec2Model ----
(***************************************************************************)
(* leftwm: the focus model (handlers/focus_handler.rs) and the event       *)
(* dispatcher (handlers/display_event_handler.rs) as a state machine.      *)
(*                                                                         *)
(* Conventions.                                                            *)
(*   - Vec / VecDeque values are sequences; index 0 of the source is       *)
(*     index 1 here, so workspace_history holds 1-based registry indexes.  *)
(*   - Option<WindowHandle>: a handle is a positive integer, None is 0.    *)
(*   - Option<()> / Option<Window> results are records with a `some` flag. *)
(*   - The registry (windows, workspaces, screens), the focus policy and   *)
(*     tags_last_window are written by handlers outside this file set;     *)
(*     they are chosen in Init and left alone by the focus handlers.       *)
(***************************************************************************)
EXTENDS Integers, Sequences, FiniteSets, TLC

VARIABLES
    windows,            \* Manager.windows: Vec<Window>
    workspaces,         \* Manager.workspaces: Vec<Workspace>
    screens,            \* Manager.screens: root handles of the screens
    tags,               \* Manager.tags: the tag names callers pass to focus_tag
    behaviour,          \* FocusManager.behaviour
    tags_last_window,   \* FocusManager.tags_last_window: tag -> handle (0: no entry)
    workspace_history,  \* FocusManager.workspace_history
    window_history,     \* FocusManager.window_history
    tag_history,        \* FocusManager.tag_history
    actions,            \* Manager.actions: VecDeque<DisplayAction>
    last,               \* the last call made on the manager and what it returned
    budget,             \* handler calls still to be explored (-1: no limit)
    frame_rate_limitor, \* Manager.frame_rate_limitor: time of the last admitted drag
    overflow_checks,    \* the build panics on integer overflow (debug) or wraps
    panicked,           \* the process has panicked
    drag,               \* the last MoveWindow/ResizeWindow: its time, handed on or not
    children,           \* Children.inner: pid -> the Child tracked (by spawn serial)
    processes,          \* the operating system's view of every spawned child
    child_flag,         \* the Arc<AtomicBool> handed to register_child_hook
    reaper,             \* where the caller stands in its observe/reap/clear cycle
    state,              \* StateSocket.state: State {peers, last_state}
    mutex,              \* who holds the Mutex around State
    listener,           \* StateSocket.listener and the position of its task
    writer,             \* position of the write_manager_state call in progress
    wire,               \* the socket: pending connections, bytes received, closed ends
    sent,               \* the snapshots broadcast so far and when each peer joined
    socket_file,        \* StateSocket.socket_file
    files,              \* the file system: what lies at each socket path
    old_socket          \* a second StateSocket: its listener and socket_file

registry == <<windows, workspaces, screens, tags, behaviour, tags_last_window>>
limiter == <<frame_rate_limitor, overflow_checks, panicked, drag>>
supervisor == <<children, processes, child_flag, reaper>>
broadcaster == <<state, mutex, listener, writer, wire, sent, socket_file, files, old_socket>>
periphery == <<limiter, supervisor, broadcaster>>
vars == <<windows, workspaces, screens, tags, behaviour, tags_last_window,
          workspace_history, window_history, tag_history, actions, last, budget,
          periphery>>

-----------------------------------------------------------------------------
(* Bounds of the model. *)

\* handlers run only while at most this many actions wait for the driver
MaxPending == 1

\* number of handler calls explored from construction under Spec
MaxCalls == 3

\* the argument of History::truncate in the three *_work functions
HistoryCap == 10

NoHandle == 0
NoTag == ""
\* every tag name of the model (the domain of tags_last_window)
TagNames == {"1", "2", "3"}

\* pointer positions the display server reports
Points == {<<1, 1>>, <<11, 1>>, <<5, 5>>, <<30, 30>>}

-----------------------------------------------------------------------------
(* Geometry (models::Xyhw). *)

Xyhw(x, y, h, w) == [x |-> x, y |-> y, h |-> h, w |-> w]

xyhw_contains_point(r, x, y) ==
    /\ r.x <= x /\ x <= r.x + r.w
    /\ r.y <= y /\ y <= r.y + r.h

xyhw_center(r) == <<r.x + (r.w \div 2), r.y + (r.h \div 2)>>

-----------------------------------------------------------------------------
(* Window and Workspace predicates. *)

Window(handle, wtags, type, never_focus, box) ==
    [handle |-> handle, tags |-> wtags, type_ |-> type,
     never_focus |-> never_focus, xyhw |-> box]

Workspace(id, wtags, box) == [id |-> id, tags |-> wtags, xyhw |-> box]

window_has_tag(w, tag) == tag \in w.tags

window_is_unmanaged(w) == w.type_ \in {"Desktop", "Dock"}

window_can_focus(w) == ~w.never_focus /\ ~window_is_unmanaged(w)

window_contains_point(w, x, y) == xyhw_contains_point(w.xyhw, x, y)

workspace_has_tag(ws, tag) == \E i \in 1..Len(ws.tags) : ws.tags[i] = tag

workspace_is_displaying(ws, w) == \E t \in w.tags : workspace_has_tag(ws, t)

workspace_is_managed(ws, w) == workspace_is_displaying(ws, w) /\ w.type_ # "Dock"

workspace_contains_point(ws, x, y) == xyhw_contains_point(ws.xyhw, x, y)

-----------------------------------------------------------------------------
(* Vec / VecDeque helpers. *)

Min(a, b) == IF a < b THEN a ELSE b

truncate(s, n) == SubSeq(s, 1, Min(Len(s), n))

push_front(s, e) == <<e>> \o s

push_back(s, e) == Append(s, e)

\* Iterator::position / find: the least index satisfying P, 0 when there is none
FirstIndex(s, P(_)) ==
    IF \E i \in 1..Len(s) : P(s[i])
    THEN CHOOSE i \in 1..Len(s) : P(s[i]) /\ \A j \in 1..(i - 1) : ~P(s[j])
    ELSE 0

-----------------------------------------------------------------------------
(* DisplayAction values. *)

Act(kind, handle, tag) == [kind |-> kind, handle |-> handle, tag |-> tag]
WindowTakeFocus(h) == Act("WindowTakeFocus", h, NoTag)
Unfocus == Act("Unfocus", NoHandle, NoTag)
SetCurrentTags(t) == Act("SetCurrentTags", NoHandle, t)
FocusWindowUnderCursor == Act("FocusWindowUnderCursor", NoHandle, NoTag)

-----------------------------------------------------------------------------
(* The mutable part of the Manager that the focus handlers work on. *)

Mgr == [workspace_history |-> workspace_history,
        window_history |-> window_history,
        tag_history |-> tag_history,
        actions |-> actions]

\* Manager::focused_workspace: registry index of the front of the history, 0 for None
focused_workspace(m) ==
    IF Len(workspaces) = 0 \/ Len(m.workspace_history) = 0 THEN 0
    ELSE m.workspace_history[1]

\* Manager::focused_window: registry index of the window whose handle is at the
\* front of the window history, 0 for None
focused_window(m) ==
    IF Len(m.window_history) = 0 THEN 0
    ELSE IF m.window_history[1] = NoHandle THEN 0
    ELSE FirstIndex(windows, LAMBDA w : w.handle = m.window_history[1])

\* FocusManager::tag(0)
focused_tag(m) == IF Len(m.tag_history) = 0 THEN NoTag ELSE m.tag_history[1]

-----------------------------------------------------------------------------
(* handlers/focus_handler.rs *)

\* focus_workspace_work without its "no new history if no change" test
focus_workspace_work_always(m, workspace_id) ==
    LET t == [m EXCEPT !.workspace_history = truncate(@, HistoryCap)]
        index == FirstIndex(workspaces, LAMBDA x : x.id = workspace_id)
    IN  IF index = 0
        THEN [m |-> t, some |-> FALSE]
        ELSE [m |-> [t EXCEPT !.workspace_history = push_front(@, index)],
              some |-> TRUE]

focus_workspace_work(m, workspace_id) ==
    LET fws == focused_workspace(m) IN
    IF fws # 0 /\ workspaces[fws].id = workspace_id
    THEN [m |-> m, some |-> FALSE]
    ELSE LET t == [m EXCEPT !.workspace_history = truncate(@, HistoryCap)]
             index == FirstIndex(workspaces, LAMBDA x : x.id = workspace_id)
         IN  IF index = 0
             THEN [m |-> t, some |-> FALSE]
             ELSE [m |-> [t EXCEPT !.workspace_history = push_front(@, index)],
                   some |-> TRUE]

\* focus_tag_work without its "no new history if no change" test
focus_tag_work_always(m, tag) ==
    [m |-> [m EXCEPT !.tag_history = push_front(truncate(@, HistoryCap), tag)],
     some |-> TRUE]

focus_tag_work(m, tag) ==
    IF focused_tag(m) # NoTag /\ focused_tag(m) = tag
    THEN [m |-> m, some |-> FALSE]
    ELSE [m |-> [m EXCEPT !.tag_history =
                     push_front(truncate(@, HistoryCap), tag)],
          some |-> TRUE]

\* focus_window_by_handle_work creating the action only when the focus changes
focus_window_by_handle_work_quiet(m, handle) ==
    LET found == FirstIndex(windows, LAMBDA w : w.handle = handle)
        fw == focused_window(m)
    IN  IF found = 0 THEN [m |-> m, some |-> FALSE, window |-> 0]
        ELSE IF window_is_unmanaged(windows[found])
        THEN [m |-> m, some |-> FALSE, window |-> 0]
        ELSE IF fw # 0 /\ windows[fw].handle = handle
        THEN [m |-> m, some |-> TRUE, window |-> found]
        ELSE [m |-> [m EXCEPT !.actions = push_back(@, WindowTakeFocus(handle)),
                              !.window_history =
                                  push_front(truncate(@, HistoryCap), handle)],
              some |-> TRUE, window |-> found]

\* focus_window_by_handle_work creating the action before it looks at the window
focus_window_by_handle_work_eager(m, handle) ==
    LET found == FirstIndex(windows, LAMBDA w : w.handle = handle)
        a == [m EXCEPT !.actions = push_back(@, WindowTakeFocus(handle))]
        fw == focused_window(a)
    IN  IF found = 0 THEN [m |-> a, some |-> FALSE, window |-> 0]
        ELSE IF window_is_unmanaged(windows[found])
        THEN [m |-> a, some |-> FALSE, window |-> 0]
        ELSE IF fw # 0 /\ windows[fw].handle = handle
        THEN [m |-> a, some |-> TRUE, window |-> found]
        ELSE [m |-> [a EXCEPT !.window_history =
                         push_front(truncate(@, HistoryCap), handle)],
              some |-> TRUE, window |-> found]

\* focus_window_by_handle_work without the is_unmanaged test
focus_window_by_handle_work_any(m, handle) ==
    LET found == FirstIndex(windows, LAMBDA w : w.handle = handle)
        a == [m EXCEPT !.actions = push_back(@, WindowTakeFocus(handle))]
        fw == focused_window(a)
    IN  IF found = 0 THEN [m |-> m, some |-> FALSE, window |-> 0]
        ELSE IF fw # 0 /\ windows[fw].handle = handle
        THEN [m |-> a, some |-> TRUE, window |-> found]
        ELSE [m |-> [a EXCEPT !.window_history =
                         push_front(truncate(@, HistoryCap), handle)],
              some |-> TRUE, window |-> found]

focus_window_by_handle_work(m, handle) ==
    LET found == FirstIndex(windows, LAMBDA w : w.handle = handle) IN
    IF found = 0 THEN [m |-> m, some |-> FALSE, window |-> 0]
    ELSE IF window_is_unmanaged(windows[found])
    THEN [m |-> m, some |-> FALSE, window |-> 0]
    ELSE LET a == [m EXCEPT !.actions = push_back(@, WindowTakeFocus(handle))]
             fw == focused_window(a)
         IN  IF fw # 0 /\ windows[fw].handle = handle
             THEN [m |-> a, some |-> TRUE, window |-> found]
             ELSE [m |-> [a EXCEPT !.window_history =
                              push_front(truncate(@, HistoryCap), handle)],
                   some |-> TRUE, window |-> found]

\* focus_window that does not focus the window's tag
focus_window_no_tag(m, handle) ==
    LET r == focus_window_by_handle_work(m, handle) IN
    IF ~r.some THEN [m |-> r.m, ret |-> FALSE]
    ELSE LET window == windows[r.window]
             wsi == FirstIndex(workspaces,
                               LAMBDA ws : workspace_is_displaying(ws, window))
         IN  [m |-> IF wsi # 0
                    THEN focus_workspace_work(r.m, workspaces[wsi].id).m
                    ELSE r.m,
              ret |-> TRUE]

\* focus_window that leaves the workspace history alone
focus_window_no_workspace(m, handle) ==
    LET r == focus_window_by_handle_work(m, handle) IN
    IF ~r.some THEN [m |-> r.m, ret |-> FALSE]
    ELSE LET window == windows[r.window]
             wsi == FirstIndex(workspaces,
                               LAMBDA ws : workspace_is_displaying(ws, window))
             ti == IF wsi = 0 THEN 0
                   ELSE FirstIndex(workspaces[wsi].tags,
                                   LAMBDA t : window_has_tag(window, t))
         IN  [m |-> IF ti # 0
                    THEN focus_tag_work(r.m, workspaces[wsi].tags[ti]).m
                    ELSE r.m,
              ret |-> TRUE]

focus_window(m, handle) ==
    LET r == focus_window_by_handle_work(m, handle) IN
    IF ~r.some THEN [m |-> r.m, ret |-> FALSE]
    ELSE LET window == windows[r.window]
             wsi == FirstIndex(workspaces,
                               LAMBDA ws : workspace_is_displaying(ws, window))
             ti == IF wsi = 0 THEN 0
                   ELSE FirstIndex(workspaces[wsi].tags,
                                   LAMBDA t : window_has_tag(window, t))
             m1 == IF wsi # 0
                   THEN focus_workspace_work(r.m, workspaces[wsi].id).m
                   ELSE r.m
             m2 == IF ti # 0
                   THEN focus_tag_work(m1, workspaces[wsi].tags[ti]).m
                   ELSE m1
         IN  [m |-> m2, ret |-> TRUE]

\* update_current_tags informing the display manager of every tag shown
update_current_tags_all(m) ==
    LET fws == focused_workspace(m) IN
    IF fws = 0 THEN m
    ELSE [m EXCEPT !.actions =
              @ \o [i \in 1..Len(workspaces[fws].tags) |->
                        SetCurrentTags(workspaces[fws].tags[i])]]

update_current_tags(m) ==
    LET fws == focused_workspace(m) IN
    IF fws # 0 /\ Len(workspaces[fws].tags) > 0
    THEN [m EXCEPT !.actions = push_back(@, SetCurrentTags(workspaces[fws].tags[1]))]
    ELSE m

\* workspace.tags.iter().for_each(|t| focus_tag_work(manager, t))
RECURSIVE focus_each_tag(_, _, _)
focus_each_tag(m, wtags, i) ==
    IF i > Len(wtags) THEN m
    ELSE focus_each_tag(focus_tag_work(m, wtags[i]).m, wtags, i + 1)

focus_workspace(m, workspace) ==
    LET r == focus_workspace_work(m, workspace.id) IN
    IF r.some
    THEN [m |-> update_current_tags(focus_each_tag(r.m, workspace.tags, 1)),
          ret |-> TRUE]
    ELSE [m |-> r.m, ret |-> FALSE]

\* for ws in &to_focus { focus_workspace_work(manager, ws.id) }
RECURSIVE focus_each_workspace(_, _, _)
focus_each_workspace(m, tag, i) ==
    IF i > Len(workspaces) THEN m
    ELSE focus_each_workspace(
             IF workspace_has_tag(workspaces[i], tag)
             THEN focus_workspace_work(m, workspaces[i].id).m
             ELSE m,
             tag, i + 1)

\* the window-restore step asking for the window under the cursor under
\* either policy
focus_tag_restore_cursor(m, tag) ==
    [m EXCEPT !.actions = push_back(@, FocusWindowUnderCursor)]

\* the window-restore step of focus_tag (lines 197-212)
focus_tag_restore(m, tag) ==
    LET first == FirstIndex(workspaces, LAMBDA w : workspace_has_tag(w, tag)) IN
    IF behaviour = "Sloppy"
    THEN [m EXCEPT !.actions = push_back(@, FocusWindowUnderCursor)]
    ELSE IF tags_last_window[tag] # NoHandle
    THEN focus_window_by_handle_work(m, tags_last_window[tag]).m
    ELSE IF first # 0
    THEN LET wi == FirstIndex(windows,
                              LAMBDA w : workspace_is_managed(workspaces[first], w))
         IN  IF wi # 0
             THEN focus_window_by_handle_work(m, windows[wi].handle).m
             ELSE m
    ELSE m

\* the unfocus step putting its action at the head of the queue
focus_tag_unfocus_first(m, tag) ==
    LET fw == focused_window(m) IN
    IF fw # 0 /\ ~window_has_tag(windows[fw], tag)
    THEN [m EXCEPT !.actions = push_front(@, Unfocus),
                   !.window_history = push_front(@, NoHandle)]
    ELSE m

\* the unfocus step emitting the action without clearing the history front
focus_tag_unfocus_action_only(m, tag) ==
    LET fw == focused_window(m) IN
    IF fw # 0 /\ ~window_has_tag(windows[fw], tag)
    THEN [m EXCEPT !.actions = push_back(@, Unfocus)]
    ELSE m

\* "Unfocus last window if the target tag is empty" (lines 214-220)
focus_tag_unfocus(m, tag) ==
    LET fw == focused_window(m) IN
    IF fw # 0 /\ ~window_has_tag(windows[fw], tag)
    THEN [m EXCEPT !.actions = push_back(@, Unfocus),
                   !.window_history = push_front(@, NoHandle)]
    ELSE m

\* focus_tag that leaves the workspaces displaying the tag alone
focus_tag_no_workspace(m, tag) ==
    LET r == focus_tag_work(m, tag) IN
    IF ~r.some THEN [m |-> r.m, ret |-> FALSE]
    ELSE [m |-> focus_tag_unfocus(focus_tag_restore(r.m, tag), tag),
          ret |-> TRUE]

focus_tag(m, tag) ==
    LET r == focus_tag_work(m, tag) IN
    IF ~r.some THEN [m |-> r.m, ret |-> FALSE]
    ELSE [m |-> focus_tag_unfocus(
                    focus_tag_restore(focus_each_workspace(r.m, tag, 1), tag), tag),
          ret |-> TRUE]

\* the windows a pointer query looks at: .filter(|x| x.can_focus()).find(|w| w.contains_point(x, y))
window_at(x, y) ==
    FirstIndex(windows, LAMBDA w : window_can_focus(w) /\ window_contains_point(w, x, y))

\* validate_focus_at that also focuses when no window is focused yet
validate_focus_at_any(m, x, y) ==
    LET current == focused_window(m)
        found == window_at(x, y)
    IN  IF found = 0 THEN [m |-> m, ret |-> FALSE]
        ELSE IF current # 0 /\ windows[current].handle = windows[found].handle
        THEN [m |-> m, ret |-> FALSE]
        ELSE focus_window(m, windows[found].handle)

\* validate_focus_at that never corrects the focus
validate_focus_at_keep(m, x, y) == [m |-> m, ret |-> FALSE]

validate_focus_at(m, x, y) ==
    LET current == focused_window(m)
        found == window_at(x, y)
    IN  IF current = 0 THEN [m |-> m, ret |-> FALSE]
        ELSE IF found = 0 THEN [m |-> m, ret |-> FALSE]
        ELSE IF windows[current].handle = windows[found].handle
        THEN [m |-> m, ret |-> FALSE]
        ELSE focus_window(m, windows[found].handle)

\* floor(sqrt(n)) of a non-negative integer
ISqrt(n) == CHOOSE r \in 0..n : r * r <= n /\ (r + 1) * (r + 1) > n

\* distance without the square root and the floor
distance_squared(window, x, y) ==
    LET c == xyhw_center(window.xyhw)
    IN  (c[1] - x) * (c[1] - x) + (c[2] - y) * (c[2] - y)

distance(window, x, y) ==
    LET c == xyhw_center(window.xyhw)
        xs == (c[1] - x) * (c[1] - x)
        ys == (c[2] - y) * (c[2] - y)
    IN  ISqrt(xs + ys)

focus_closest_window(m, x, y) ==
    LET wsi == FirstIndex(workspaces, LAMBDA ws : workspace_contains_point(ws, x, y))
        cand == {i \in 1..Len(windows) :
                    /\ workspace_is_managed(workspaces[wsi], windows[i])
                    /\ window_can_focus(windows[i])}
        \* dists.sort_by is stable: the first of the least distance, in registry order
        first == CHOOSE i \in cand :
                    \A j \in cand :
                        \/ distance(windows[i], x, y) < distance(windows[j], x, y)
                        \/ /\ distance(windows[i], x, y) = distance(windows[j], x, y)
                           /\ i <= j
    IN  IF wsi = 0 THEN [m |-> m, ret |-> FALSE]
        ELSE IF cand = {} THEN [m |-> m, ret |-> FALSE]
        ELSE focus_window(m, windows[first].handle)

move_focus_to_point(m, x, y) ==
    LET found == window_at(x, y) IN
    IF found # 0 THEN focus_window(m, windows[found].handle)
    ELSE focus_closest_window(m, x, y)

focus_workspace_under_cursor(m, x, y) ==
    LET fws == focused_workspace(m)
        wsi == FirstIndex(workspaces,
                          LAMBDA ws : /\ workspace_contains_point(ws, x, y)
                                      /\ (fws = 0 \/ ws.id # workspaces[fws].id))
    IN  IF wsi # 0 THEN focus_workspace(m, workspaces[wsi])
        ELSE [m |-> m, ret |-> FALSE]

-----------------------------------------------------------------------------
(* handlers/display_event_handler.rs: the arms of process that reach the    *)
(* focus handlers.                                                          *)

\* the MouseEnteredWindow arm without the test of the focus behaviour
process_MouseEnteredWindow_any(m, handle) == focus_window(m, handle)

process_MouseEnteredWindow(m, handle) ==
    IF behaviour = "Sloppy" THEN focus_window(m, handle)
    ELSE [m |-> m, ret |-> FALSE]

process_MoveFocusTo(m, x, y) == move_focus_to_point(m, x, y)

process_VerifyFocusedAt(m, x, y) ==
    IF behaviour = "Sloppy" THEN validate_focus_at(m, x, y)
    ELSE [m |-> m, ret |-> FALSE]

\* the Movement arm without the test for a screen root
process_Movement_any(m, handle, x, y) ==
    IF behaviour = "Sloppy"
    THEN focus_workspace_under_cursor(m, x, y)
    ELSE [m |-> m, ret |-> FALSE]

process_Movement(m, handle, x, y) ==
    IF handle \in screens /\ behaviour = "Sloppy"
    THEN focus_workspace_under_cursor(m, x, y)
    ELSE [m |-> m, ret |-> FALSE]

\* the arms of process that leave through `return`, past `if update_needed`
returns_early(op, handle) ==
    \/ op \in {"MouseEnteredWindow", "VerifyFocusedAt"}
    \/ op = "Movement" /\ handle \in screens /\ behaviour = "Sloppy"

\* the end of process: update_windows(manager) runs when the match yielded true
layout_pass(op, handle, ret) == ~returns_early(op, handle) /\ ret

-----------------------------------------------------------------------------
(* Registries the manager can hold. *)

\* two screens, one tag shown on each, a dock on the first; tag "3" is shown nowhere
Registry1 ==
    [windows |-> <<Window(1, {"1"}, "Normal", FALSE, Xyhw(0, 0, 2, 2)),
                   Window(2, {"2"}, "Normal", FALSE, Xyhw(10, 0, 2, 2)),
                   Window(3, {"1"}, "Dock", FALSE, Xyhw(0, 8, 1, 9))>>,
     workspaces |-> <<Workspace(0, <<"1">>, Xyhw(0, 0, 9, 9)),
                      Workspace(1, <<"2">>, Xyhw(10, 0, 9, 9))>>,
     screens |-> {100, 101},
     tags |-> {"1", "2", "3"}]

\* a workspace showing two tags, a tag shown by two workspaces, a workspace
\* showing none; a window no workspace displays and a desktop window
Registry2 ==
    [windows |-> <<Window(3, {"1"}, "Desktop", FALSE, Xyhw(0, 0, 9, 9)),
                   Window(1, {"2"}, "Normal", FALSE, Xyhw(10, 0, 2, 2)),
                   Window(2, {"3"}, "Normal", FALSE, Xyhw(0, 0, 2, 2))>>,
     workspaces |-> <<Workspace(0, <<"1", "2">>, Xyhw(0, 0, 9, 9)),
                      Workspace(1, <<"2">>, Xyhw(10, 0, 9, 9)),
                      Workspace(2, <<>>, Xyhw(20, 0, 9, 9))>>,
     screens |-> {100, 101, 102},
     tags |-> {"1", "2", "3"}]

\* the least registry on which all three histories grow
RegistryH ==
    [windows |-> <<Window(1, {"1"}, "Normal", FALSE, Xyhw(0, 0, 2, 2))>>,
     workspaces |-> <<Workspace(0, <<"1">>, Xyhw(0, 0, 9, 9)),
                      Workspace(1, <<"2">>, Xyhw(10, 0, 9, 9))>>,
     screens |-> {100, 101},
     tags |-> {"1", "2"}]

\* one workspace with two windows off the pointer (a tie at (1, 1), the later one
\* nearer at (5, 5)) and a dock under (5, 5); one whose only window refuses
\* focus; one with two overlapping windows
Registry3 ==
    [windows |-> <<Window(1, {"1"}, "Normal", FALSE, Xyhw(5, 0, 0, 0)),
                   Window(2, {"1"}, "Normal", FALSE, Xyhw(5, 1, 0, 0)),
                   Window(6, {"1"}, "Dock", FALSE, Xyhw(5, 5, 0, 0)),
                   Window(3, {"2"}, "Normal", TRUE, Xyhw(10, 0, 2, 2)),
                   Window(4, {"3"}, "Normal", FALSE, Xyhw(20, 0, 2, 2)),
                   Window(5, {"3"}, "Normal", FALSE, Xyhw(20, 0, 4, 4))>>,
     workspaces |-> <<Workspace(0, <<"1">>, Xyhw(0, 0, 9, 9)),
                      Workspace(1, <<"2">>, Xyhw(10, 0, 9, 9)),
                      Workspace(2, <<"3">>, Xyhw(20, 0, 9, 9))>>,
     screens |-> {100, 101, 102},
     tags |-> {"1", "2", "3"}]

\* tags_last_window: no entry at all, or entries left by earlier focus changes
\* (the window recorded for a tag may since have lost the tag)
NoLastWindow == [t \in TagNames |-> NoHandle]
StaleLastWindow == [t \in TagNames |-> IF t = "3" THEN 3 ELSE 1]

\* a call: the operation, its arguments, whether its target was already the
\* current one when it was made, what it returned, and whether update_windows
\* ran on the manager during it
Call(op, handle, tag, ws, pt, same, ret) ==
    [op |-> op, handle |-> handle, tag |-> tag, ws |-> ws, pt |-> pt,
     same |-> same, ret |-> ret, updated |-> FALSE]

\* a call of DisplayEventHandler::process
Processed(call, updated) == [call EXCEPT !.updated = updated]

IsCurrentWorkspace(i) ==
    focused_workspace(Mgr) # 0 /\ workspaces[focused_workspace(Mgr)].id = workspaces[i].id

IsCurrentWindow(h) ==
    focused_window(Mgr) # 0 /\ windows[focused_window(Mgr)].handle = h

IsCurrentTag(t) == focused_tag(Mgr) = t

NoPoint == <<0, 0>>

\* no drag seen yet
NoDrag == [time |-> 0, handed |-> FALSE]

\* Manager::default(): the limiter starts at 0
LimiterInit ==
    /\ frame_rate_limitor = 0
    /\ panicked = FALSE
    /\ drag = NoDrag

\* pids the operating system hands out, and how many children are spawned
Pids == {7, 8, 9}
MaxSpawn == 3
Serials == 1..MaxSpawn

\* Children::new(): nothing tracked, nothing spawned
SupervisorInit ==
    /\ children = <<>>
    /\ processes = [c \in Serials |-> [pid |-> 0, status |-> "unborn"]]
    /\ child_flag = FALSE
    /\ reaper = "observe"

\* peers that may connect; None in Vec<Option<UnixStream>>
PeerIds == {1, 2}
NoPeer == 0

\* write_manager_state calls explored
MaxWrites == 3

\* the paths a socket is bound at; PathBuf::default() is the empty path
Paths == {"p", "q"}
NoPath == ""

\* what lies at a path: nothing, a file left behind by a process that is gone,
\* or the file of a bound socket
NoFile == "none"
StaleSocket == "stale"
BoundSocket == "bound"
\* the file of the socket the second StateSocket has bound
OldSocket == "old"

\* StateSocket::default(): no peers, empty last_state, no listener task, the
\* empty path; `open` records that a listen succeeded and no shutdown followed,
\* `dropped` the peers whose write failed
BroadcasterInit ==
    /\ state = [peers |-> <<>>, last_state |-> <<>>]
    /\ mutex = "free"
    /\ listener = [some |-> FALSE, pc |-> "accept", peer |-> NoPeer, discarded |-> FALSE]
    /\ writer = [pc |-> "idle", json |-> <<>>, i |-> 0, old |-> <<>>,
                 before |-> [p \in PeerIds |-> <<>>], calls |-> 0,
                 listening |-> FALSE, failed |-> {}]
    /\ wire = [backlog |-> <<>>, received |-> [p \in PeerIds |-> <<>>],
               closed |-> {}, connected |-> {}]
    /\ sent = [broadcasts |-> <<>>, joined |-> [p \in PeerIds |-> -1],
               open |-> FALSE, dropped |-> {}]
    /\ socket_file = NoPath
    /\ files = [path \in Paths |-> NoFile]
    /\ old_socket = [listener |-> FALSE, socket_file |-> NoPath]

PeripheryInit ==
    /\ LimiterInit
    /\ overflow_checks = FALSE
    /\ SupervisorInit
    /\ BroadcasterInit

InitWith(registries, calls) ==
    /\ \E r \in registries :
        /\ windows = r.windows
        /\ workspaces = r.workspaces
        /\ screens = r.screens
        /\ tags = r.tags
    /\ behaviour \in {"Sloppy", "ClickTo"}
    /\ tags_last_window \in {NoLastWindow, StaleLastWindow}
    /\ workspace_history = <<>>
    /\ window_history = <<>>
    /\ tag_history = <<>>
    /\ actions = <<>>
    /\ last = Call("new", NoHandle, NoTag, 0, NoPoint, FALSE, FALSE)
    /\ budget = calls
    /\ PeripheryInit

Init == InitWith({Registry1, Registry2}, MaxCalls)

InitHistory == InitWith({RegistryH}, -1)

\* the result of a handler becomes the manager's state
Commit(r, call) ==
    /\ workspace_history' = r.m.workspace_history
    /\ window_history' = r.m.window_history
    /\ tag_history' = r.m.tag_history
    /\ actions' = r.m.actions
    /\ last' = call
    /\ budget' = IF budget > 0 THEN budget - 1 ELSE budget
    /\ UNCHANGED <<registry, periphery>>

Ready == budget # 0 /\ Len(actions) <= MaxPending

FocusWorkspace(i) ==
    /\ Ready
    /\ LET r == focus_workspace(Mgr, workspaces[i])
       IN  Commit(r, Call("focus_workspace", NoHandle, NoTag, i, NoPoint,
                          IsCurrentWorkspace(i), r.ret))

FocusWindow(h) ==
    /\ Ready
    /\ LET r == focus_window(Mgr, h)
       IN  Commit(r, Call("focus_window", h, NoTag, 0, NoPoint, IsCurrentWindow(h), r.ret))

FocusTag(t) ==
    /\ Ready
    /\ LET r == focus_tag(Mgr, t)
       IN  Commit(r, Call("focus_tag", NoHandle, t, 0, NoPoint, IsCurrentTag(t), r.ret))

MouseEnteredWindow(h) ==
    /\ Ready
    /\ LET r == process_MouseEnteredWindow(Mgr, h)
       IN  Commit(r, Processed(Call("MouseEnteredWindow", h, NoTag, 0, NoPoint,
                                    IsCurrentWindow(h), r.ret),
                               layout_pass("MouseEnteredWindow", h, r.ret)))

MoveFocusTo(p) ==
    /\ Ready
    /\ LET r == process_MoveFocusTo(Mgr, p[1], p[2])
       IN  Commit(r, Processed(Call("MoveFocusTo", NoHandle, NoTag, 0, p, FALSE, r.ret),
                               layout_pass("MoveFocusTo", NoHandle, r.ret)))

VerifyFocusedAt(p) ==
    /\ Ready
    /\ LET r == process_VerifyFocusedAt(Mgr, p[1], p[2])
       IN  Commit(r, Processed(Call("VerifyFocusedAt", NoHandle, NoTag, 0, p, FALSE, r.ret),
                               layout_pass("VerifyFocusedAt", NoHandle, r.ret)))

Movement(h, p) ==
    /\ Ready
    /\ LET r == process_Movement(Mgr, h, p[1], p[2])
       IN  Commit(r, Processed(Call("Movement", h, NoTag, 0, p, FALSE, r.ret),
                               layout_pass("Movement", h, r.ret)))

\* the display driver takes the pending actions off the queue
ExecuteActions ==
    /\ actions # <<>>
    /\ actions' = <<>>
    /\ last' = Call("execute_actions", NoHandle, NoTag, 0, NoPoint, FALSE, FALSE)
    /\ UNCHANGED <<registry, workspace_history, window_history, tag_history, budget,
                   periphery>>

\* handles the callers and the display server pass: every window's, and an unknown one
Handles == {windows[i].handle : i \in 1..Len(windows)} \cup {9}

\* the handle of a Movement event: a screen root, or a window
RootOrWindow == {100, 1}

Next ==
    \/ \E i \in 1..Len(workspaces) : FocusWorkspace(i)
    \/ \E h \in Handles : FocusWindow(h)
    \/ \E t \in tags : FocusTag(t)
    \/ \E h \in Handles : MouseEnteredWindow(h)
    \/ \E p \in Points : MoveFocusTo(p)
    \/ \E p \in Points : VerifyFocusedAt(p)
    \/ \E h \in RootOrWindow, p \in Points : Movement(h, p)
    \/ ExecuteActions

\* the pointer positions of MoveFocusTo on Registry3
PointQueries == Points \cup {<<21, 1>>, <<25, 8>>}

InitPoint == InitWith({Registry3}, MaxCalls)

\* MoveFocusTo among the calls that move the focus elsewhere
NextPoint ==
    \/ \E p \in PointQueries : MoveFocusTo(p)
    \/ \E h \in Handles : FocusWindow(h)
    \/ \E t \in tags : FocusTag(t)
    \/ ExecuteActions

SpecPoint == InitPoint /\ [][NextPoint]_vars

-----------------------------------------------------------------------------
(* The frame-rate limiter of MoveWindow and ResizeWindow.                    *)

\* 1000 / 60 in integer arithmetic
FrameTime == 1000 \div 60

\* (time - frame_rate_limitor) > (1000 / 60) on c_ulong without overflow checks:
\* with time < frame_rate_limitor the difference wraps to 2^64 - (limitor - time),
\* which exceeds the threshold for every timestamp below 2^63
limiter_admits(time, limitor) ==
    IF time >= limitor THEN (time - limitor) > FrameTime ELSE TRUE

\* registry index of the window with this handle, 0 when there is none
window_index(ws, handle) ==
    LET found == {i \in 1..Len(ws) : ws[i].handle = handle}
    IN  IF found = {} THEN 0 ELSE CHOOSE i \in found : \A j \in found : i <= j

\* window_move_handler::process: the window with the handle is moved by the
\* pointer offsets; false when no window has the handle
window_move_handler_process(ws, handle, x, y) ==
    LET i == window_index(ws, handle) IN
    IF i = 0 THEN [windows |-> ws, ret |-> FALSE]
    ELSE [windows |-> [ws EXCEPT ![i].xyhw.x = x, ![i].xyhw.y = y], ret |-> TRUE]

\* window_resize_handler::process: the same for the size
window_resize_handler_process(ws, handle, x, y) ==
    LET i == window_index(ws, handle) IN
    IF i = 0 THEN [windows |-> ws, ret |-> FALSE]
    ELSE [windows |-> [ws EXCEPT ![i].xyhw.w = x, ![i].xyhw.h = y], ret |-> TRUE]

\* the MoveWindow arm measuring from the last event seen, applied or not
process_MoveWindow_seen(ws, limitor, handle, time, x, y) ==
    IF limiter_admits(time, limitor)
    THEN LET r == window_move_handler_process(ws, handle, x, y)
         IN  [windows |-> r.windows, frame_rate_limitor |-> time,
              handed |-> TRUE, ret |-> r.ret]
    ELSE [windows |-> ws, frame_rate_limitor |-> time,
          handed |-> FALSE, ret |-> FALSE]

\* the MoveWindow arm of process; limitor is manager.frame_rate_limitor
process_MoveWindow(ws, limitor, handle, time, x, y) ==
    IF limiter_admits(time, limitor)
    THEN LET r == window_move_handler_process(ws, handle, x, y)
         IN  [windows |-> r.windows, frame_rate_limitor |-> time,
              handed |-> TRUE, ret |-> r.ret]
    ELSE [windows |-> ws, frame_rate_limitor |-> limitor,
          handed |-> FALSE, ret |-> FALSE]

\* the ResizeWindow arm advancing the limiter only when the handler reports a
\* change
process_ResizeWindow_changed(ws, limitor, handle, time, x, y) ==
    IF limiter_admits(time, limitor)
    THEN LET r == window_resize_handler_process(ws, handle, x, y)
         IN  [windows |-> r.windows,
              frame_rate_limitor |-> IF r.ret THEN time ELSE limitor,
              handed |-> TRUE, ret |-> r.ret]
    ELSE [windows |-> ws, frame_rate_limitor |-> limitor,
          handed |-> FALSE, ret |-> FALSE]

\* the ResizeWindow arm of process
process_ResizeWindow(ws, limitor, handle, time, x, y) ==
    IF limiter_admits(time, limitor)
    THEN LET r == window_resize_handler_process(ws, handle, x, y)
         IN  [windows |-> r.windows, frame_rate_limitor |-> time,
              handed |-> TRUE, ret |-> r.ret]
    ELSE [windows |-> ws, frame_rate_limitor |-> limitor,
          handed |-> FALSE, ret |-> FALSE]

\* time - frame_rate_limitor overflows: a build with overflow checks panics
\* there, before anything is written
DragOverflows(time) == overflow_checks /\ time < frame_rate_limitor

CommitDrag(r, time, call) ==
    /\ windows' = r.windows
    /\ frame_rate_limitor' = r.frame_rate_limitor
    /\ drag' = [time |-> time, handed |-> r.handed]
    /\ last' = call
    /\ UNCHANGED <<workspaces, screens, tags, behaviour, tags_last_window,
                   workspace_history, window_history, tag_history, actions,
                   budget, overflow_checks, panicked, supervisor, broadcaster>>

Panic ==
    /\ panicked' = TRUE
    /\ last' = Call("panic", NoHandle, NoTag, 0, NoPoint, FALSE, FALSE)
    /\ UNCHANGED <<registry, workspace_history, window_history, tag_history,
                   actions, budget, frame_rate_limitor, overflow_checks, drag,
                   supervisor, broadcaster>>

MoveWindow(h, time, p) ==
    /\ ~panicked
    /\ IF DragOverflows(time) THEN Panic
       ELSE LET r == process_MoveWindow(windows, frame_rate_limitor, h, time, p[1], p[2])
            IN  CommitDrag(r, time,
                           Processed(Call("MoveWindow", h, NoTag, 0, p, FALSE, r.ret),
                                     layout_pass("MoveWindow", h, r.ret)))

ResizeWindow(h, time, p) ==
    /\ ~panicked
    /\ IF DragOverflows(time) THEN Panic
       ELSE LET r == process_ResizeWindow(windows, frame_rate_limitor, h, time, p[1], p[2])
            IN  CommitDrag(r, time,
                           Processed(Call("ResizeWindow", h, NoTag, 0, p, FALSE, r.ret),
                                     layout_pass("ResizeWindow", h, r.ret)))

\* event timestamps: around one frame from 0 and from 1000, and one earlier
DragTimes == {16, 17, 990, 1000, 1010, 1016, 1017, 1020}
DragPoints == {<<1, 1>>, <<5, 5>>}
DragHandles == {1, 9}

\* the manager at rest, for the parts that do not touch the focus model
InitCore ==
    /\ windows = RegistryH.windows
    /\ workspaces = RegistryH.workspaces
    /\ screens = RegistryH.screens
    /\ tags = RegistryH.tags
    /\ behaviour = "Sloppy"
    /\ tags_last_window = NoLastWindow
    /\ workspace_history = <<>>
    /\ window_history = <<>>
    /\ tag_history = <<>>
    /\ actions = <<>>
    /\ last = Call("new", NoHandle, NoTag, 0, NoPoint, FALSE, FALSE)
    /\ budget = -1

InitDrag ==
    /\ InitCore
    /\ LimiterInit
    /\ overflow_checks \in BOOLEAN
    /\ SupervisorInit
    /\ BroadcasterInit

NextDrag ==
    \/ \E h \in DragHandles, t \in DragTimes, p \in DragPoints : MoveWindow(h, t, p)
    \/ \E h \in DragHandles, t \in DragTimes, p \in DragPoints : ResizeWindow(h, t, p)

SpecDrag == InitDrag /\ [][NextDrag]_vars

-----------------------------------------------------------------------------
(* utils/child_process.rs: the table of children.                            *)
(* A Child is named by the serial of its spawn; processes[c] is what the     *)
(* operating system knows of it: "running", "exited" (not yet waited for),   *)
(* "lost" (waited for by someone else: try_wait fails and the pid is free    *)
(* again) or "reaped" (waited for by reap).                                  *)

\* the manager outside the table
core == <<registry, workspace_history, window_history, tag_history, actions, budget>>

\* Children::reap that also drops the children whose try_wait fails
Children_reap_strict(table, procs) ==
    LET keep == {pid \in DOMAIN table : procs[table[pid]].status = "running"}
    IN  [pid \in keep |-> table[pid]]

\* Children::insert: HashMap::insert puts the child under its pid, replacing the
\* child tracked under that pid, and returns the replaced one
Children_insert(table, pid, child) ==
    [inner |-> [q \in DOMAIN table \cup {pid} |-> IF q = pid THEN child ELSE table[q]],
     ret |-> pid \notin DOMAIN table]

\* child.try_wait().map_or(true, |ret| ret.is_none()): keep unless Ok(Some(_))
Children_reap(table, procs) ==
    LET keep == {pid \in DOMAIN table : procs[table[pid]].status # "exited"}
    IN  [pid \in keep |-> table[pid]]

\* pids no unwaited process holds
FreePids ==
    Pids \ {processes[c].pid : c \in {d \in Serials :
                                          processes[d].status \in {"running", "exited"}}}

\* exec_shell: spawn a child and insert it; last.handle is its pid, last.ws its serial
Insert(pid) ==
    /\ \E c \in Serials :
          /\ processes[c].status = "unborn"
          /\ \A d \in Serials : d < c => processes[d].status # "unborn"
          /\ pid \in FreePids
          /\ LET r == Children_insert(children, pid, c) IN
             /\ children' = r.inner
             /\ processes' = [processes EXCEPT ![c] = [pid |-> pid, status |-> "running"]]
             /\ last' = Call("insert", pid, NoTag, c, NoPoint, FALSE, r.ret)
    /\ UNCHANGED <<core, limiter, child_flag, reaper, broadcaster>>

\* a child terminates: SIGCHLD arrives and the registered hook sets the flag
ChildExit(c) ==
    /\ processes[c].status = "running"
    /\ processes' = [processes EXCEPT ![c].status = "exited"]
    /\ child_flag' = TRUE
    /\ last' = Call("child_exit", processes[c].pid, NoTag, c, NoPoint, FALSE, FALSE)
    /\ UNCHANGED <<core, limiter, children, reaper, broadcaster>>

\* a terminated child is waited for outside the table
ChildLost(c) ==
    /\ processes[c].status = "exited"
    /\ processes' = [processes EXCEPT ![c].status = "lost"]
    /\ last' = Call("child_lost", processes[c].pid, NoTag, c, NoPoint, FALSE, FALSE)
    /\ UNCHANGED <<core, limiter, children, child_flag, reaper, broadcaster>>

\* Children::reap; try_wait waits for the exited children; last.ws counts the
\* entries removed
ReapTable ==
    /\ children' = Children_reap(children, processes)
    /\ processes' = [c \in Serials |->
                        IF /\ processes[c].status = "exited"
                           /\ \E pid \in DOMAIN children : children[pid] = c
                        THEN [processes[c] EXCEPT !.status = "reaped"]
                        ELSE processes[c]]
    /\ last' = Call("reap", NoHandle, NoTag,
                    Cardinality(DOMAIN children) - Cardinality(DOMAIN children'),
                    NoPoint, FALSE, FALSE)
    /\ UNCHANGED <<core, limiter, broadcaster>>

\* reap called wherever the caller wants to
Reap == ReapTable /\ UNCHANGED <<child_flag, reaper>>

\* the caller's cycle: it sees the flag set, ...
Observe ==
    /\ reaper = "observe" /\ child_flag
    /\ reaper' = "reap"
    /\ last' = Call("observe", NoHandle, NoTag, 0, NoPoint, FALSE, TRUE)
    /\ UNCHANGED <<core, limiter, children, processes, child_flag, broadcaster>>

\* ... calls reap, ...
ReapObserved ==
    /\ reaper = "reap"
    /\ ReapTable
    /\ reaper' = "clear"
    /\ UNCHANGED child_flag

\* ... and then clears the flag
Clear ==
    /\ reaper = "clear"
    /\ child_flag' = FALSE
    /\ reaper' = "observe"
    /\ last' = Call("clear", NoHandle, NoTag, 0, NoPoint, FALSE, TRUE)
    /\ UNCHANGED <<core, limiter, children, processes, broadcaster>>

InitChildren == InitCore /\ PeripheryInit

NextChildren ==
    \/ \E pid \in Pids : Insert(pid)
    \/ \E c \in Serials : ChildExit(c)
    \/ \E c \in Serials : ChildLost(c)
    \/ Reap

SpecChildren == InitChildren /\ [][NextChildren]_vars

\* children spawned and terminating while the caller runs its cycle; the caller
\* never stops, the children owe nothing
NextReaping ==
    \/ \E pid \in Pids : Insert(pid)
    \/ \E c \in Serials : ChildExit(c)
    \/ Observe
    \/ ReapObserved
    \/ Clear

SpecReaping ==
    /\ InitChildren
    /\ [][NextReaping]_vars
    /\ WF_vars(Observe) /\ WF_vars(ReapObserved) /\ WF_vars(Clear)

-----------------------------------------------------------------------------
(* utils/state_socket.rs: the state broadcaster.                             *)
(* A byte string is a sequence of tokens; a snapshot line ends with "\n".    *)
(* The caller's write_manager_state runs in steps (lock, one write per peer, *)
(* record and unlock); the listener task accepts a connection, then waits    *)
(* for the lock and serves the peer while holding it.                        *)

\* the manager states handed to write_manager_state: what the dto shows, and
\* the length of the action queue, which the dto does not carry
ManagerStates == [tag : {"1", "2"}, queued : {0, 1}]

\* serde_json::to_string(&ManagerState::from(manager)) followed by '\n'
to_json(ms) == <<ms.tag, "\n">>

\* json != state.last_state, taken as always true
snapshot_differs_always(json, last_state) == TRUE

\* json != state.last_state
snapshot_differs(json, last_state) == json # last_state

\* peer.write_all(bytes): fails on a connection whose other end is closed;
\* writing no bytes touches nothing and succeeds
write_ok(w, peer, bytes) == bytes = <<>> \/ peer \notin w.closed

\* state.peers.retain that keeps every entry
retain_all(peers) == peers

\* state.peers.retain(Option::is_some)
retain_some(peers) == SelectSeq(peers, LAMBDA q : q # NoPeer)

\* the listener task adding the peer without writing last_state to it
listener_serve_silent(st, w, peer) ==
    [state |-> [st EXCEPT !.peers = Append(@, peer)], wire |-> w, pushed |-> TRUE]

\* the listener task's critical section: write last_state to the accepted peer
\* and push it when the write succeeded; otherwise the stream is dropped
listener_serve(st, w, peer) ==
    IF write_ok(w, peer, st.last_state)
    THEN [state |-> [st EXCEPT !.peers = Append(@, peer)],
          wire |-> [w EXCEPT !.received[peer] = @ \o st.last_state],
          pushed |-> TRUE]
    ELSE [state |-> st, wire |-> w, pushed |-> FALSE]

\* build_listener giving up when the first bind fails
bind_socket_once(fs, path, socket) ==
    IF fs[path] = NoFile
    THEN [files |-> [fs EXCEPT ![path] = socket], ok |-> TRUE]
    ELSE [files |-> fs, ok |-> FALSE]

\* build_listener: UnixListener::bind fails on a path where a file lies; the
\* file is then removed and the path bound again; socket is the file that
\* binding creates
bind_socket(fs, path, socket) ==
    IF fs[path] = NoFile
    THEN [files |-> [fs EXCEPT ![path] = socket], ok |-> TRUE]
    ELSE LET removed == [fs EXCEPT ![path] = NoFile]
         IN  [files |-> [removed EXCEPT ![path] = socket], ok |-> TRUE]

\* shutdown that aborts the task but leaves the handle in place
keep_listener(l) == [l EXCEPT !.pc = "accept", !.peer = NoPeer]

\* self.listener.take() and the abort of the task
take_listener(l) == [l EXCEPT !.some = FALSE, !.pc = "accept", !.peer = NoPeer]

\* Drop for StateSocket: !std::thread::panicking() && self.listener.is_some()
drop_panics(l) == ~panicked /\ l.some

\* a step of the broadcaster, named in last
SocketStep(op, peer, ok) == Call(op, peer, NoTag, 0, NoPoint, FALSE, ok)

\* StateSocket::listen: the path is stored, the socket bound and the listener
\* task spawned; callers listen on a socket that is not listening; last.same
\* tells whether a file lay at the path
Listen(path) ==
    /\ ~listener.discarded /\ ~listener.some /\ writer.pc = "idle"
    /\ socket_file' = path
    /\ LET r == bind_socket(files, path, BoundSocket) IN
       /\ files' = r.files
       /\ listener' = IF r.ok THEN [listener EXCEPT !.some = TRUE, !.pc = "accept",
                                                    !.peer = NoPeer]
                      ELSE listener
       /\ sent' = [sent EXCEPT !.open = r.ok]
       /\ last' = Call("listen", NoPeer, NoTag, 0, NoPoint, files[path] # NoFile, r.ok)
    /\ UNCHANGED <<core, limiter, supervisor, state, mutex, writer, wire, old_socket>>

\* StateSocket::shutdown: the task is aborted; the UnixListener and the stream
\* the task held are dropped, which closes the connections not yet served
\* with no listener shutdown does nothing; otherwise the socket file is removed
Shutdown ==
    /\ ~listener.discarded /\ writer.pc = "idle"
    /\ IF listener.some
       THEN /\ listener' = take_listener(listener)
            /\ wire' = [wire EXCEPT
                            !.backlog = <<>>,
                            !.closed = @ \cup {wire.backlog[k] : k \in 1..Len(wire.backlog)}
                                         \cup ({listener.peer} \ {NoPeer})]
            /\ files' = [files EXCEPT ![socket_file] = NoFile]
       ELSE UNCHANGED <<listener, wire, files>>
    /\ sent' = [sent EXCEPT !.open = FALSE]
    /\ last' = SocketStep("shutdown", NoPeer, TRUE)
    /\ UNCHANGED <<core, limiter, supervisor, state, mutex, writer, socket_file, old_socket>>

\* the StateSocket is discarded: Drop panics when the listener is still there
Drop ==
    /\ ~listener.discarded /\ writer.pc = "idle"
    /\ listener' = [listener EXCEPT !.discarded = TRUE]
    /\ panicked' = (panicked \/ drop_panics(listener))
    /\ last' = SocketStep("drop", NoPeer, ~drop_panics(listener))
    /\ UNCHANGED <<core, frame_rate_limitor, overflow_checks, drag, supervisor,
                   state, mutex, writer, wire, sent, socket_file, old_socket, files>>

\* listen on the second StateSocket
OldListen(path) ==
    /\ ~old_socket.listener
    /\ LET r == bind_socket(files, path, OldSocket) IN
       /\ files' = r.files
       /\ old_socket' = [listener |-> r.ok, socket_file |-> path]
       /\ last' = Call("old_listen", NoPeer, NoTag, 0, NoPoint, files[path] # NoFile, r.ok)
    /\ UNCHANGED <<core, limiter, supervisor, state, mutex, listener, writer, wire,
                   sent, socket_file>>

\* shutdown of the second StateSocket
OldShutdown ==
    /\ IF old_socket.listener
       THEN files' = [files EXCEPT ![old_socket.socket_file] = NoFile]
       ELSE files' = files
    /\ old_socket' = [old_socket EXCEPT !.listener = FALSE]
    /\ last' = SocketStep("old_shutdown", NoPeer, TRUE)
    /\ UNCHANGED <<core, limiter, supervisor, state, mutex, listener, writer, wire,
                   sent, socket_file>>

\* a process that is gone has left a socket file behind
StaleFile(path) ==
    /\ files[path] = NoFile
    /\ files' = [files EXCEPT ![path] = StaleSocket]
    /\ last' = SocketStep("stale_file", NoPeer, TRUE)
    /\ UNCHANGED <<core, limiter, supervisor, state, mutex, listener, writer, wire,
                   sent, socket_file, old_socket>>

\* a client connects to the bound socket
Connect(peer) ==
    /\ listener.some /\ files[socket_file] = BoundSocket
    /\ peer \notin wire.connected
    /\ wire' = [wire EXCEPT !.backlog = Append(@, peer), !.connected = @ \cup {peer}]
    /\ last' = SocketStep("connect", peer, TRUE)
    /\ UNCHANGED <<core, limiter, supervisor, state, mutex, listener, writer, sent,
                   socket_file, old_socket, files>>

\* a client closes its end
PeerClose(peer) ==
    /\ peer \in wire.connected \ wire.closed
    /\ wire' = [wire EXCEPT !.closed = @ \cup {peer}]
    /\ last' = SocketStep("close", peer, TRUE)
    /\ UNCHANGED <<core, limiter, supervisor, state, mutex, listener, writer, sent,
                   socket_file, old_socket, files>>

\* listener.accept().await returns a connection
Accept ==
    /\ listener.some /\ listener.pc = "accept" /\ wire.backlog # <<>>
    /\ listener' = [listener EXCEPT !.pc = "lock", !.peer = Head(wire.backlog)]
    /\ wire' = [wire EXCEPT !.backlog = Tail(@)]
    /\ last' = SocketStep("accept", Head(wire.backlog), TRUE)
    /\ UNCHANGED <<core, limiter, supervisor, state, mutex, writer, sent,
                   socket_file, old_socket, files>>

\* state.lock().await, the connect-time write and the push, then the guard drops
Serve ==
    /\ listener.some /\ listener.pc = "lock" /\ mutex = "free"
    /\ LET r == listener_serve(state, wire, listener.peer) IN
       /\ state' = r.state
       /\ wire' = IF r.pushed THEN r.wire
                  ELSE [r.wire EXCEPT !.closed = @ \cup {listener.peer}]
       /\ sent' = IF r.pushed
                  THEN [sent EXCEPT !.joined[listener.peer] = Len(sent.broadcasts)]
                  ELSE [sent EXCEPT !.dropped = @ \cup {listener.peer}]
       /\ last' = SocketStep("serve", listener.peer, r.pushed)
    /\ listener' = [listener EXCEPT !.pc = "accept", !.peer = NoPeer]
    /\ UNCHANGED <<core, limiter, supervisor, mutex, writer, socket_file, old_socket, files>>

\* write_manager_state is called: without a listener it returns Ok at once,
\* otherwise it serializes and waits for the lock
WriteCall(ms) ==
    /\ ~listener.discarded /\ writer.pc = "idle" /\ writer.calls < MaxWrites
    /\ writer' = [writer EXCEPT !.pc = IF listener.some THEN "lock" ELSE "idle",
                                !.json = to_json(ms),
                                !.old = state.last_state,
                                !.before = wire.received,
                                !.i = 0,
                                !.calls = @ + 1,
                                !.listening = listener.some,
                                !.failed = {}]
    /\ last' = IF listener.some THEN SocketStep("write_call", NoPeer, TRUE)
               ELSE SocketStep("write_manager_state", NoPeer, TRUE)
    /\ UNCHANGED <<core, limiter, supervisor, state, mutex, listener, wire, sent,
                   socket_file, old_socket, files>>

\* the lock is taken and the snapshot compared with last_state
WriteLock ==
    /\ writer.pc = "lock" /\ mutex = "free"
    /\ mutex' = "writer"
    /\ IF snapshot_differs(writer.json, state.last_state)
       THEN /\ state' = [state EXCEPT !.peers = retain_some(@)]
            /\ writer' = [writer EXCEPT !.pc = "write", !.i = 1,
                                        !.old = state.last_state,
                                        !.before = wire.received]
       ELSE /\ state' = state
            /\ writer' = [writer EXCEPT !.pc = "done",
                                        !.old = state.last_state,
                                        !.before = wire.received]
    /\ last' = SocketStep("write_lock", NoPeer, TRUE)
    /\ UNCHANGED <<core, limiter, supervisor, listener, wire, sent, socket_file, old_socket, files>>

\* one turn of the loop over the peers: an entry that is None ends the call
\* with Err(stream_error) and drops the guard; otherwise write_all, and take()
\* the peer on error
WritePeer ==
    /\ writer.pc = "write" /\ writer.i <= Len(state.peers)
    /\ LET peer == state.peers[writer.i] IN
       IF peer = NoPeer
       THEN /\ writer' = [writer EXCEPT !.pc = "idle"]
            /\ mutex' = "free"
            /\ last' = SocketStep("write_manager_state", NoPeer, FALSE)
            /\ UNCHANGED <<wire, state, sent>>
       ELSE IF write_ok(wire, peer, writer.json)
       THEN /\ wire' = [wire EXCEPT !.received[peer] = @ \o writer.json]
            /\ writer' = [writer EXCEPT !.i = @ + 1]
            /\ last' = SocketStep("write_peer", peer, TRUE)
            /\ UNCHANGED <<state, mutex, sent>>
       ELSE /\ state' = [state EXCEPT !.peers[writer.i] = NoPeer]
            /\ writer' = [writer EXCEPT !.i = @ + 1, !.failed = @ \cup {peer}]
            /\ sent' = [sent EXCEPT !.dropped = @ \cup {peer}]
            /\ last' = SocketStep("write_peer", peer, FALSE)
            /\ UNCHANGED <<wire, mutex>>
    /\ UNCHANGED <<core, limiter, supervisor, listener, socket_file, old_socket, files>>

\* after the loop last_state is recorded; the guard drops and Ok is returned
WriteReturn ==
    /\ \/ writer.pc = "done"
       \/ writer.pc = "write" /\ writer.i > Len(state.peers)
    /\ IF writer.pc = "write"
       THEN /\ state' = [state EXCEPT !.last_state = writer.json]
            /\ sent' = [sent EXCEPT !.broadcasts = Append(@, writer.json)]
       ELSE UNCHANGED <<state, sent>>
    /\ mutex' = "free"
    /\ writer' = [writer EXCEPT !.pc = "idle"]
    /\ last' = SocketStep("write_manager_state", NoPeer, TRUE)
    /\ UNCHANGED <<core, limiter, supervisor, listener, wire, socket_file, old_socket, files>>

InitSocket == InitCore /\ PeripheryInit

NextSocket ==
    \/ \E path \in Paths : Listen(path)
    \/ Shutdown
    \/ \E peer \in PeerIds : Connect(peer)
    \/ \E peer \in PeerIds : PeerClose(peer)
    \/ Accept
    \/ Serve
    \/ \E ms \in ManagerStates : WriteCall(ms)
    \/ WriteLock
    \/ WritePeer
    \/ WriteReturn

SpecSocket == InitSocket /\ [][NextSocket]_vars

\* the life of a StateSocket, with peers connecting to it
NextLifecycle ==
    \/ \E path \in Paths : Listen(path)
    \/ Shutdown
    \/ Drop
    \/ \E path \in Paths : StaleFile(path)
    \/ \E peer \in PeerIds : Connect(peer)
    \/ \E peer \in PeerIds : PeerClose(peer)
    \/ Accept
    \/ Serve

SpecLifecycle == InitSocket /\ [][NextLifecycle]_vars

\* two StateSockets listening and shutting down on the same paths, with peers
\* connecting to the first
NextInstances ==
    \/ \E path \in Paths : Listen(path)
    \/ Shutdown
    \/ \E path \in Paths : OldListen(path)
    \/ OldShutdown
    \/ \E peer \in PeerIds : Connect(peer)
    \/ \E peer \in PeerIds : PeerClose(peer)
    \/ Accept
    \/ Serve

SpecInstances == InitSocket /\ [][NextInstances]_vars

Spec == Init /\ [][Next]_vars

\* the three focus operations alone, called without limit on the least registry
NextHistory ==
    \/ \E i \in 1..Len(workspaces) : FocusWorkspace(i)
    \/ \E h \in Handles : FocusWindow(h)
    \/ \E t \in tags : FocusTag(t)
    \/ ExecuteActions

SpecHistory == InitHistory /\ [][NextHistory]_vars

-----------------------------------------------------------------------------
(* Properties. *)

histories == <<workspace_history, window_history, tag_history>>

\* registry index of the window with handle h, 0 when there is none
WindowOf(h) == FirstIndex(windows, LAMBDA w : w.handle = h)

KnownManaged(h) == WindowOf(h) # 0 /\ ~window_is_unmanaged(windows[WindowOf(h)])

IsLast(s, e) == Len(s) > 0 /\ s[Len(s)] = e

\* C1: each of the three focus histories holds at most 10 (HistoryCap) entries
\* in every state reachable by focus_workspace, focus_window and focus_tag calls.
C1_HistoriesWithinCap ==
    /\ Len(workspace_history) <= HistoryCap
    /\ Len(window_history) <= HistoryCap
    /\ Len(tag_history) <= HistoryCap

\* C2: re-focusing the already-current workspace, window or tag leaves that
\* target's own history as it was (same length, same order).
C2_RefocusKeepsOwnHistory ==
    [][/\ (last'.op = "focus_workspace" /\ last'.same)
            => workspace_history' = workspace_history
       /\ (last'.op = "focus_window" /\ last'.same)
            => window_history' = window_history
       /\ (last'.op = "focus_tag" /\ last'.same)
            => tag_history' = tag_history]_vars

\* C2 witness: a window that was already the current one has been focused again,
\* after other calls, and the call reported success.
C2_Witness ==
    /\ last.op = "focus_window" /\ last.same /\ last.ret
    /\ Len(tag_history) >= 2

\* C3 as stated: re-focusing the already-current workspace, window or tag
\* mutates no history and appends no action.
C3_RefocusIsNoOp ==
    [][(last'.op \in {"focus_workspace", "focus_window", "focus_tag"} /\ last'.same)
          => UNCHANGED <<histories, actions>>]_vars

\* C3 amended: re-focusing the current workspace or tag mutates no history and
\* appends no action; re-focusing the current window leaves the window history
\* unchanged and appends exactly one WindowTakeFocus action for it.
C3_RefocusAmended ==
    [][/\ (last'.op \in {"focus_workspace", "focus_tag"} /\ last'.same)
            => (UNCHANGED <<histories, actions>> /\ ~last'.ret)
       /\ (last'.op = "focus_window" /\ last'.same)
            => /\ window_history' = window_history
               /\ actions' = Append(actions, WindowTakeFocus(last'.handle))
               /\ last'.ret]_vars

\* C3 witness: the current workspace has been focused again while an action was
\* pending and the histories were not empty.
C3_Witness ==
    /\ last.op = "focus_workspace" /\ last.same /\ ~last.ret
    /\ actions # <<>>
    /\ window_history # <<>>

\* C4: focus_window on the handle of a known, managed window appends exactly one
\* action, WindowTakeFocus of that window, and returns true, whether or not the
\* window is already the current one.
C4_FocusWindowAlwaysTakesFocus ==
    [][(last'.op = "focus_window" /\ KnownManaged(last'.handle))
          => /\ last'.ret
             /\ actions' = Append(actions, WindowTakeFocus(last'.handle))]_vars

\* C4 witness: focus_window has been called on the window that was already
\* current, and the queue ends with two WindowTakeFocus actions for it.
C4_Witness ==
    /\ last.op = "focus_window" /\ last.same /\ last.ret
    /\ Len(actions) >= 2
    /\ actions[Len(actions)] = WindowTakeFocus(last.handle)
    /\ actions[Len(actions) - 1] = WindowTakeFocus(last.handle)

\* C5: focus_window on a handle that matches no window, or that matches an
\* unmanaged window, returns false and leaves the three histories and the action
\* queue unchanged.
C5_FocusWindowMiss ==
    [][(last'.op = "focus_window" /\ ~KnownManaged(last'.handle))
          => /\ ~last'.ret
             /\ UNCHANGED <<histories, actions>>]_vars

\* C5 witness: focus_window has been called on an unmanaged window of the
\* registry while another window was focused, and returned false.
C5_Witness ==
    /\ last.op = "focus_window" /\ ~last.ret
    /\ WindowOf(last.handle) # 0
    /\ window_is_unmanaged(windows[WindowOf(last.handle)])
    /\ focused_window(Mgr) # 0
    /\ actions # <<>>

\* C6: no entry of the window-focus history is the handle of an unmanaged
\* window: every entry is None or the handle of a managed window of the registry.
C6_NoUnmanagedInHistory ==
    \A i \in 1..Len(window_history) :
        window_history[i] # NoHandle => KnownManaged(window_history[i])

\* C6 witness: under the explicit policy focus_tag has run its restore step for a
\* tag whose recorded last window is unmanaged, with a window in the history.
C6_Witness ==
    /\ last.op = "focus_tag" /\ last.ret
    /\ behaviour = "ClickTo"
    /\ tags_last_window[last.tag] # NoHandle
    /\ ~KnownManaged(tags_last_window[last.tag])
    /\ \E i \in 1..Len(window_history) : window_history[i] # NoHandle

\* C7: after focus_window(h) returns true for a window that some workspace
\* displays, the current workspace displays that window and the current tag is a
\* tag the window carries and that workspace displays.
C7_FocusWindowCascades ==
    (/\ last.op = "focus_window" /\ last.ret
     /\ \E i \in 1..Len(workspaces) :
            workspace_is_displaying(workspaces[i], windows[WindowOf(last.handle)]))
    => LET w == windows[WindowOf(last.handle)]
           fws == focused_workspace(Mgr)
       IN  /\ fws # 0
           /\ workspace_is_displaying(workspaces[fws], w)
           /\ window_has_tag(w, focused_tag(Mgr))
           /\ workspace_has_tag(workspaces[fws], focused_tag(Mgr))

\* C7 witness: focus_window has succeeded on a window that two workspaces
\* display, after another workspace and tag had been focused.
C7_Witness ==
    /\ last.op = "focus_window" /\ last.ret
    /\ Cardinality({i \in 1..Len(workspaces) :
           workspace_is_displaying(workspaces[i], windows[WindowOf(last.handle)])}) = 2
    /\ Len(workspace_history) >= 2
    /\ Len(tag_history) >= 2

\* C8 as stated: focus_workspace(ws) returns true exactly when ws was not the
\* current workspace; then ws is current, the current tag is one ws displays
\* (when it displays any) and exactly one SetCurrentTags action is appended;
\* when it returns false nothing changes.
C8_FocusWorkspace ==
    [][last'.op = "focus_workspace"
          => LET ws == workspaces[last'.ws] IN
             /\ last'.ret <=> ~last'.same
             /\ last'.ret =>
                  /\ focused_workspace(Mgr)' = last'.ws
                  /\ Len(ws.tags) > 0 => workspace_has_tag(ws, focused_tag(Mgr)')
                  /\ \E t \in TagNames : actions' = Append(actions, SetCurrentTags(t))
             /\ ~last'.ret => UNCHANGED <<histories, actions>>]_vars

\* C8 amended: as C8, except that exactly one SetCurrentTags action is appended
\* when ws displays at least one tag and no action is appended when ws displays
\* no tag.
C8_FocusWorkspaceAmended ==
    [][last'.op = "focus_workspace"
          => LET ws == workspaces[last'.ws] IN
             /\ last'.ret <=> ~last'.same
             /\ last'.ret =>
                  /\ focused_workspace(Mgr)' = last'.ws
                  /\ Len(ws.tags) > 0 => workspace_has_tag(ws, focused_tag(Mgr)')
                  /\ IF Len(ws.tags) > 0
                     THEN \E t \in TagNames :
                              actions' = Append(actions, SetCurrentTags(t))
                     ELSE actions' = actions
             /\ ~last'.ret => UNCHANGED <<histories, actions>>]_vars

\* C8 witness: focus_workspace has made a workspace showing two tags current,
\* replacing another workspace, and the queue ends with SetCurrentTags.
C8_Witness ==
    /\ last.op = "focus_workspace" /\ last.ret
    /\ Len(workspaces[last.ws].tags) = 2
    /\ Len(workspace_history) >= 2
    /\ workspace_history[1] = last.ws
    /\ \E t \in TagNames : IsLast(actions, SetCurrentTags(t))

\* C9: after focus_tag(t) returns true, t is the current tag, and if some
\* workspace displays t the current workspace displays t; every workspace
\* displaying t is in the workspace history.
C9_FocusTagFocusesWorkspace ==
    (last.op = "focus_tag" /\ last.ret)
    => LET fws == focused_workspace(Mgr)
           showing == {i \in 1..Len(workspaces) :
                          workspace_has_tag(workspaces[i], last.tag)}
       IN  /\ focused_tag(Mgr) = last.tag
           /\ showing # {} => (fws # 0 /\ fws \in showing)
           /\ \A i \in showing :
                  \E k \in 1..Len(workspace_history) : workspace_history[k] = i

\* C9 witness: focus_tag has succeeded for a tag two workspaces display, and
\* both were pushed in registry order, the later one now current.
C9_Witness ==
    /\ last.op = "focus_tag" /\ last.ret
    /\ Cardinality({i \in 1..Len(workspaces) :
                       workspace_has_tag(workspaces[i], last.tag)}) = 2
    /\ Len(workspace_history) >= 3
    /\ workspace_history[1] = 2
    /\ workspace_history[2] = 1

\* the manager at the end of the restore step of focus_tag(t)
AfterRestore(t) ==
    focus_tag_restore(focus_each_workspace(focus_tag_work(Mgr, t).m, t, 1), t)

\* C10: when focus_tag(t) changes the current tag and the window focused at the
\* end of its restore step does not carry t (in particular when no window carries
\* t and a window was focused), the front of the window history becomes None and
\* an Unfocus action is appended.
C10_FocusTagUnfocuses ==
    [][(last'.op = "focus_tag" /\ last'.ret)
          => LET t == last'.tag
                 mid == AfterRestore(t)
                 fw == focused_window(mid)
             IN  /\ (fw # 0 /\ ~window_has_tag(windows[fw], t))
                      => /\ window_history' = <<NoHandle>> \o mid.window_history
                         /\ actions' = Append(mid.actions, Unfocus)
                         /\ focused_window(Mgr)' = 0
                 /\ (focused_window(Mgr) # 0
                     /\ \A i \in 1..Len(windows) : ~window_has_tag(windows[i], t))
                      => /\ Len(window_history') > 0
                         /\ window_history'[1] = NoHandle
                         /\ IsLast(actions', Unfocus)]_vars

\* C10 witness: focus_tag has changed the tag to one no window carries while a
\* window of another tag was focused; the history front is None over that
\* window's handle and the queue ends with Unfocus.
C10_Witness ==
    /\ last.op = "focus_tag" /\ last.ret
    /\ \A i \in 1..Len(windows) : ~window_has_tag(windows[i], last.tag)
    /\ Len(window_history) >= 2
    /\ window_history[1] = NoHandle
    /\ window_history[2] # NoHandle
    /\ IsLast(actions, Unfocus)

\* C11: a window is never shown as focused on a tag it does not belong to:
\* whenever a window is focused and a tag is current, the window carries that tag.
C11_FocusedWindowCarriesTag ==
    (focused_window(Mgr) # 0 /\ focused_tag(Mgr) # NoTag)
    => window_has_tag(windows[focused_window(Mgr)], focused_tag(Mgr))

\* registry index of the first focusable window covering (x, y), 0 when none does
Covering(x, y) ==
    LET c == {i \in 1..Len(windows) :
                 /\ window_can_focus(windows[i])
                 /\ window_contains_point(windows[i], x, y)}
    IN  IF c = {} THEN 0 ELSE CHOOSE i \in c : \A j \in c : i <= j

EventOps == {"MouseEnteredWindow", "MoveFocusTo", "VerifyFocusedAt", "Movement"}

\* C12: validate_focus_at(x, y) changes focus only when a focusable window covers
\* (x, y) and differs from the focused window; over empty space, over the focused
\* window, or with no window focused it returns false and leaves the histories
\* and the action queue unchanged.
C12_ValidateFocusAt ==
    [][last'.op = "VerifyFocusedAt"
          => LET cur == focused_window(Mgr)
                 cov == Covering(last'.pt[1], last'.pt[2])
             IN  /\ (last'.ret \/ histories' # histories \/ actions' # actions)
                      => (cov # 0 /\ cur # 0 /\ cov # cur)
                 /\ (cov = 0 \/ cur = 0 \/ cov = cur)
                      => (~last'.ret /\ UNCHANGED <<histories, actions>>)
                 /\ (behaviour = "Sloppy" /\ cov # 0 /\ cur # 0 /\ cov # cur)
                      => (last'.ret /\ focused_window(Mgr)' = cov)]_vars

\* C12 witness: under Sloppy, VerifyFocusedAt over a focusable window returned
\* false because no window was focused.
C12_Witness ==
    /\ last.op = "VerifyFocusedAt" /\ ~last.ret
    /\ behaviour = "Sloppy"
    /\ Covering(last.pt[1], last.pt[2]) # 0
    /\ focused_window(Mgr) = 0
    /\ window_history # <<>>

\* floor of the Euclidean distance from (x, y) to the centre of window i
FlooredDistance(i, x, y) ==
    LET c == xyhw_center(windows[i].xyhw)
        d2 == (c[1] - x) * (c[1] - x) + (c[2] - y) * (c[2] - y)
    IN  CHOOSE r \in 0..d2 : r * r <= d2 /\ d2 < (r + 1) * (r + 1)

\* the window move_focus_to_point is to focus at (x, y): the first focusable
\* window covering the point, else the nearest focusable window managed by the
\* first workspace containing it (ties to the earliest), 0 when there is none
ExpectedTarget(x, y) ==
    LET inws == {k \in 1..Len(workspaces) :
                    workspace_contains_point(workspaces[k], x, y)}
        ws == CHOOSE k \in inws : \A j \in inws : k <= j
        cand == {i \in 1..Len(windows) :
                    /\ workspace_is_managed(workspaces[ws], windows[i])
                    /\ window_can_focus(windows[i])}
    IN  IF Covering(x, y) # 0 THEN Covering(x, y)
        ELSE IF inws = {} THEN 0
        ELSE IF cand = {} THEN 0
        ELSE CHOOSE i \in cand :
                 \A j \in cand :
                     \/ FlooredDistance(i, x, y) < FlooredDistance(j, x, y)
                     \/ /\ FlooredDistance(i, x, y) = FlooredDistance(j, x, y)
                        /\ i <= j

\* C13: move_focus_to_point(x, y) focuses the first focusable window containing
\* the point, else the focusable window managed by the first workspace containing
\* the point whose centre is nearest by floored Euclidean distance (ties to the
\* earliest in the registry); with no such window it returns false and changes
\* nothing.
C13_MoveFocusToPoint ==
    [][last'.op = "MoveFocusTo"
          => LET e == ExpectedTarget(last'.pt[1], last'.pt[2]) IN
             IF e = 0
             THEN ~last'.ret /\ UNCHANGED <<histories, actions>>
             ELSE /\ last'.ret
                  /\ focused_window(Mgr)' = e
                  /\ actions' = Append(actions, WindowTakeFocus(windows[e].handle))]_vars

\* C13 witness: MoveFocusTo at a point no window covers, with two windows at the
\* same floored distance, focused the one earlier in the registry.
C13_Witness ==
    /\ last.op = "MoveFocusTo" /\ last.ret
    /\ last.pt = <<1, 1>>
    /\ Covering(1, 1) = 0
    /\ FlooredDistance(1, 1, 1) = FlooredDistance(2, 1, 1)
    /\ focused_window(Mgr) = 1

\* C15: process returns true whenever the event changed registry or focus state
\* and false for every event that changed neither.
C15_RedrawIffChanged ==
    [][last'.op \in EventOps
          => (last'.ret <=> <<registry, histories>>' # <<registry, histories>>)]_vars

\* s is a prefix of t
IsPrefix(s, t) == Len(s) <= Len(t) /\ SubSeq(t, 1, Len(s)) = s

\* C16: an event never removes or reorders queued actions (the queue before is a
\* prefix of the queue after) and appends in the order the steps ran: for
\* focus_tag under the explicit policy WindowTakeFocus precedes Unfocus, for
\* focus_workspace SetCurrentTags comes last.
C16_ActionsAppendInOrder ==
    [][last'.op # "execute_actions"
          => LET new == SubSeq(actions', Len(actions) + 1, Len(actions')) IN
             /\ IsPrefix(actions, actions')
             /\ (last'.op = "focus_tag" /\ behaviour # "Sloppy")
                  => \A i, j \in 1..Len(new) :
                         (new[i].kind = "WindowTakeFocus" /\ new[j].kind = "Unfocus")
                             => i < j
             /\ (last'.op = "focus_workspace" /\ new # <<>>)
                  => /\ new[Len(new)].kind = "SetCurrentTags"
                     /\ Len(new) = 1]_vars

\* C16 witness: with an action already queued, focus_tag under the explicit
\* policy restored a window that lacks the tag: the queue now ends with
\* WindowTakeFocus followed by Unfocus.
C16_Witness ==
    /\ last.op = "focus_tag" /\ last.ret
    /\ behaviour = "ClickTo"
    /\ Len(actions) >= 3
    /\ actions[Len(actions)] = Unfocus
    /\ actions[Len(actions) - 1].kind = "WindowTakeFocus"

\* C14: a MoveWindow or ResizeWindow event with timestamp t is handed to the
\* move/resize handler if and only if t minus the last-applied timestamp is
\* strictly greater than 16; an event not handed on returns false.
C14_LimiterAdmitsIffLater ==
    [][last'.op \in {"MoveWindow", "ResizeWindow"}
          => /\ drag'.handed <=> (drag'.time - frame_rate_limitor > 16)
             /\ ~drag'.handed => ~last'.ret]_vars

\* C17: Children.insert of a child whose pid is already tracked returns false
\* and leaves the child tracked under that pid in the table unchanged; insert of
\* an untracked pid returns true and adds exactly that entry.
C17_InsertRejectsTrackedPid ==
    [][last'.op = "insert"
          => IF last'.handle \in DOMAIN children
             THEN ~last'.ret /\ children' = children
             ELSE /\ last'.ret
                  /\ DOMAIN children' = DOMAIN children \cup {last'.handle}
                  /\ children'[last'.handle] = last'.ws
                  /\ \A pid \in DOMAIN children : children'[pid] = children[pid]]_vars

\* C18: after Children.reap the table holds exactly the previously tracked
\* children whose status check did not report an exit: each exited child is
\* removed, no running child and no child whose check failed is removed, and
\* nothing is added.
C18_ReapRemovesExactlyExited ==
    [][last'.op = "reap"
          => /\ DOMAIN children' =
                    {pid \in DOMAIN children : processes[children[pid]].status # "exited"}
             /\ \A pid \in DOMAIN children' : children'[pid] = children[pid]]_vars

\* C18 witness: a reap removed an exited child and kept a running child and a
\* child whose status check fails.
C18_Witness ==
    /\ last.op = "reap" /\ last.ws = 1
    /\ \E pid \in DOMAIN children : processes[children[pid]].status = "lost"
    /\ \E pid \in DOMAIN children : processes[children[pid]].status = "running"

\* the peers in state.peers
Members == {state.peers[k] : k \in 1..Len(state.peers)} \ {NoPeer}

RECURSIVE Flatten(_)
\* the byte strings of a sequence, one after the other
Flatten(ss) == IF ss = <<>> THEN <<>> ELSE Head(ss) \o Flatten(Tail(ss))

\* what a peer must have received: the snapshot that was the last one broadcast
\* when it was accepted, then every later broadcast in order, and the snapshot
\* being broadcast once the loop has passed the peer
ExpectedStream(peer) ==
    LET j == sent.joined[peer]
        first == IF j = 0 THEN <<>> ELSE sent.broadcasts[j]
        later == Flatten(SubSeq(sent.broadcasts, j + 1, Len(sent.broadcasts)))
        passed == /\ writer.pc = "write"
                  /\ \E k \in 1..Len(state.peers) : k < writer.i /\ state.peers[k] = peer
    IN  first \o later \o (IF passed THEN writer.json ELSE <<>>)

\* C19: under any interleaving of connections with write_manager_state calls,
\* each connected peer has received the last snapshot broadcast when it was
\* accepted (nothing if there was none) followed by every later broadcast, in
\* order, each exactly once.
C19_PeerStream ==
    \A peer \in Members : wire.received[peer] = ExpectedStream(peer)

\* C19 witness: a peer accepted after the first broadcast has received that
\* snapshot and the two broadcast after it joined.
C19_Witness ==
    /\ writer.pc = "idle"
    /\ Len(sent.broadcasts) = 3
    /\ \E peer \in Members :
          /\ sent.joined[peer] = 1
          /\ Len(wire.received[peer]) = 6
          /\ wire.received[peer] = Flatten(sent.broadcasts)

\* the peers in state.peers whose connection is open
LivePeers == Members \ wire.closed

\* C20: write_manager_state writes to the peers if and only if the serialized
\* snapshot differs from the last one recorded: an identical snapshot delivers
\* nothing, a differing one is written to every live peer and becomes the
\* recorded last snapshot.
C20_WriteIffDiffers ==
    [][last'.op = "write_manager_state"
          => IF writer'.json = writer'.old
             THEN /\ wire'.received = writer'.before
                  /\ state'.last_state = writer'.old
             ELSE /\ state'.last_state = writer'.json
                  /\ \A peer \in LivePeers' :
                         wire'.received[peer] = writer'.before[peer] \o writer'.json]_vars

\* C20 (amended): the same for a call made while the socket is listening; a
\* call made without a listener writes and records nothing.
C20_WriteIffDiffersListening ==
    [][last'.op = "write_manager_state"
          => IF writer'.json = writer'.old \/ ~writer'.listening
             THEN /\ wire'.received = writer'.before
                  /\ state'.last_state = writer'.old
             ELSE /\ state'.last_state = writer'.json
                  /\ \A peer \in LivePeers' :
                         wire'.received[peer] = writer'.before[peer] \o writer'.json
                  /\ \A peer \in PeerIds \ Members' :
                         wire'.received[peer] = writer'.before[peer]]_vars

\* C20 witness: a second call with an identical snapshot has returned and the
\* live peer, which joined before the first call, holds exactly one line.
C20_Witness ==
    /\ last.op = "write_manager_state"
    /\ writer.calls = 2 /\ writer.json = writer.old
    /\ Len(sent.broadcasts) = 1
    /\ \E peer \in LivePeers :
          /\ sent.joined[peer] = 0
          /\ wire.received[peer] = writer.json

\* C24: under a non-Sloppy focus policy MouseEnteredWindow, VerifyFocusedAt and
\* Movement events are ignored: process returns false and the histories, the
\* action queue and the rest of the manager are unchanged.
C24_ExplicitPolicyIgnoresPointer ==
    [][(behaviour # "Sloppy"
        /\ last'.op \in {"MouseEnteredWindow", "VerifyFocusedAt", "Movement"})
          => /\ ~last'.ret
             /\ UNCHANGED <<histories, actions, registry, periphery>>]_vars

\* C24 witness: under the explicit policy the pointer entered a managed window
\* that is not the focused one, and the event returned false.
C24_Witness ==
    /\ behaviour = "ClickTo"
    /\ last.op = "MouseEnteredWindow" /\ ~last.ret
    /\ KnownManaged(last.handle)
    /\ window_history # <<>>
    /\ window_history[1] # last.handle

\* registry index of the workspace containing (x, y), 0 when none does
WorkspaceAt(x, y) ==
    LET c == {k \in 1..Len(workspaces) : workspace_contains_point(workspaces[k], x, y)}
    IN  IF c = {} THEN 0 ELSE CHOOSE k \in c : \A j \in c : k <= j

\* C25: under Sloppy a Movement event over a screen root focuses the workspace
\* containing the pointer if and only if it differs from the current one
\* (returning true and making it current); over a non-root handle, over the
\* current workspace or over no workspace it returns false and changes nothing.
C25_MovementFocusesWorkspace ==
    [][(behaviour = "Sloppy" /\ last'.op = "Movement")
          => LET under == WorkspaceAt(last'.pt[1], last'.pt[2])
                 cur == focused_workspace(Mgr)
             IN  IF last'.handle \in screens /\ under # 0 /\ under # cur
                 THEN last'.ret /\ focused_workspace(Mgr)' = under
                 ELSE ~last'.ret /\ UNCHANGED <<histories, actions>>]_vars

\* C25 witness: under Sloppy the pointer moved over a root from the current
\* workspace into another one, which is now current.
C25_Witness ==
    /\ behaviour = "Sloppy"
    /\ last.op = "Movement" /\ last.ret /\ last.handle \in screens
    /\ Len(workspace_history) >= 2
    /\ workspace_history[1] = WorkspaceAt(last.pt[1], last.pt[2])
    /\ workspace_history[2] # workspace_history[1]

\* C26: focus_window on the handle that is already the focused window leaves
\* the workspace history unchanged, in every reachable state.
C26_RefocusKeepsWorkspaceHistory ==
    [][(last'.op = "focus_window" /\ last'.same)
          => workspace_history' = workspace_history]_vars

\* registry index of the first workspace displaying the window with handle h
WorkspaceOf(h) ==
    LET c == {k \in 1..Len(workspaces) :
                 workspace_is_displaying(workspaces[k], windows[WindowOf(h)])}
    IN  IF c = {} THEN 0 ELSE CHOOSE k \in c : \A j \in c : k <= j

\* C26 (amended): focus_window on the already focused window leaves the
\* workspace history unchanged when the window's workspace is the current one
\* (or no workspace displays the window); when another workspace has been
\* focused in between, the window's workspace is pushed onto the history again.
C26_RefocusRestoresWorkspace ==
    [][(last'.op = "focus_window" /\ last'.same)
          => LET own == WorkspaceOf(last'.handle) IN
             IF own = 0 \/ own = focused_workspace(Mgr)
             THEN workspace_history' = workspace_history
             ELSE /\ workspace_history' = <<own>> \o workspace_history
                  /\ Len(workspace_history) < HistoryCap]_vars

\* C26 witness: the focused window was focused again after another workspace
\* had been focused, and its workspace is back at the front of the history.
C26_Witness ==
    /\ last.op = "focus_window" /\ last.same /\ last.ret
    /\ Len(workspace_history) = 3
    /\ workspace_history[1] = WorkspaceOf(last.handle)
    /\ workspace_history[3] = workspace_history[1]
    /\ workspace_history[2] # workspace_history[1]

\* C27: under Sloppy, after a VerifyFocusedAt(x, y) event where a focusable
\* window covers (x, y), that window is the focused window, including when no
\* window was focused before.
C27_VerifyCorrectsFocus ==
    [][(behaviour = "Sloppy" /\ last'.op = "VerifyFocusedAt"
        /\ Covering(last'.pt[1], last'.pt[2]) # 0)
          => focused_window(Mgr)' = Covering(last'.pt[1], last'.pt[2])]_vars

\* C27 (amended): the same when some window was focused before the event; when
\* no window was focused the event returns false and corrects nothing.
C27_VerifyCorrectsFocusOfSome ==
    [][(behaviour = "Sloppy" /\ last'.op = "VerifyFocusedAt"
        /\ Covering(last'.pt[1], last'.pt[2]) # 0)
          => IF focused_window(Mgr) # 0
             THEN focused_window(Mgr)' = Covering(last'.pt[1], last'.pt[2])
             ELSE /\ ~last'.ret
                  /\ focused_window(Mgr)' = 0
                  /\ UNCHANGED <<histories, actions>>]_vars

\* C27 witness: under Sloppy, VerifyFocusedAt found another window focused than
\* the one under the pointer and focused the one under the pointer.
C27_Witness ==
    /\ behaviour = "Sloppy"
    /\ last.op = "VerifyFocusedAt" /\ last.ret
    /\ Len(window_history) >= 2
    /\ window_history[2] # NoHandle
    /\ focused_window(Mgr) # 0
    /\ focused_window(Mgr) = Covering(last.pt[1], last.pt[2])

\* the handle focus_tag(t) restores under the explicit policy: the one recorded
\* for t, else that of the first window managed by the first workspace
\* displaying t; 0 when there is neither
RestoreTarget(t) ==
    LET ws == {k \in 1..Len(workspaces) : workspace_has_tag(workspaces[k], t)}
        first == CHOOSE k \in ws : \A j \in ws : k <= j
        ms == {i \in 1..Len(windows) : workspace_is_managed(workspaces[first], windows[i])}
    IN  IF tags_last_window[t] # NoHandle THEN tags_last_window[t]
        ELSE IF ws = {} THEN NoHandle
        ELSE IF ms = {} THEN NoHandle
        ELSE windows[CHOOSE i \in ms : \A j \in ms : i <= j].handle

DragOps == {"MoveWindow", "ResizeWindow"}

\* C29: a MoveWindow or ResizeWindow event whose timestamp does not exceed the
\* last-applied timestamp (equal or earlier) is never applied: it returns false
\* and the limiter timestamp keeps its value.
C29_EarlierEventNotApplied ==
    [][(last'.op \in DragOps /\ drag'.time <= frame_rate_limitor)
          => /\ ~drag'.handed
             /\ ~last'.ret
             /\ frame_rate_limitor' = frame_rate_limitor]_vars

\* C30: a rate-limited-out MoveWindow or ResizeWindow event leaves no trace: the
\* limiter timestamp, the registry, the histories and the action queue are
\* unchanged and it returns false, so a later event is measured from the last
\* applied one (after 1000 applied and 1010 dropped, 1020 is applied).
C30_DroppedDragLeavesNoTrace ==
    [][/\ (last'.op \in DragOps /\ ~drag'.handed)
            => /\ ~last'.ret
               /\ UNCHANGED <<frame_rate_limitor, registry, histories, actions>>
       /\ (/\ last.op \in DragOps /\ ~drag.handed /\ drag.time = 1010
           /\ frame_rate_limitor = 1000
           /\ last'.op \in DragOps /\ drag'.time = 1020)
            => (drag'.handed /\ frame_rate_limitor' = 1020)]_vars

\* C30 witness: an event at 1010 has been dropped and the limiter still holds
\* 1000, the time of the last event applied.
C30_Witness ==
    /\ last.op \in DragOps /\ ~last.ret
    /\ drag = [time |-> 1010, handed |-> FALSE]
    /\ frame_rate_limitor = 1000

\* C21: a write failure to one peer during a broadcast does not fail the
\* broadcast: write_manager_state returns Ok, every other live peer receives the
\* snapshot and the snapshot is recorded, the failing peer leaves the peer set
\* and is never written to again, and a peer whose connect-time write fails is
\* never added to the peer set.
C21_PeerFailureIsPruned ==
    [][/\ last'.op = "write_manager_state"
          => /\ last'.ret
             /\ writer'.failed # {}
                   => /\ state'.last_state = writer'.json
                      /\ \A peer \in LivePeers' :
                             wire'.received[peer] = writer'.before[peer] \o writer'.json
                      /\ writer'.failed \cap Members' = {}
       /\ last'.op = "serve" /\ ~last'.ret => last'.handle \notin Members'
       /\ sent'.dropped \cap Members' = {}
       /\ \A peer \in sent.dropped : wire'.received[peer] = wire.received[peer]]_vars

\* C21 witness: a broadcast has returned Ok after the write to one peer failed,
\* and the other peer, still connected, has received the snapshot.
C21_Witness ==
    /\ last.op = "write_manager_state" /\ last.ret
    /\ writer.json # writer.old
    /\ writer.failed # {}
    /\ \E peer \in LivePeers :
          /\ peer \notin writer.failed
          /\ wire.received[peer] = writer.before[peer] \o writer.json
          /\ Len(wire.received[peer]) > Len(writer.before[peer])

\* C22: a StateSocket that has listened and is discarded without shutdown
\* reaches the fatal state; shutdown clears the listener handle, so discarding
\* after it is safe; a second shutdown changes nothing; a StateSocket that never
\* listened is discarded safely.
C22_DropNeedsShutdown ==
    [][/\ last'.op = "drop" => (panicked' <=> sent.open)
       /\ last'.op = "shutdown" => ~listener'.some
       /\ last'.op = "shutdown" /\ ~sent.open
             => UNCHANGED <<state, mutex, listener, writer, wire, socket_file, old_socket, files>>]_vars

\* C22 witness: a StateSocket listening on a path has been discarded and the
\* fatal state is reached.
C22_Witness ==
    /\ last.op = "drop" /\ ~last.ret
    /\ listener.discarded /\ listener.some
    /\ socket_file \in Paths
    /\ panicked

C31_RedrawRunsLayoutPass ==
    [][last'.op \in EventOps \cup DragOps /\ last'.ret /\ core' # core
          => last'.updated]_vars

\* C33: whenever focus_workspace appends a SetCurrentTags action, the tag it
\* carries is the focused tag (the front of the tag history) at the end of that
\* call, for workspaces displaying any number of tags.
C33_SetCurrentTagsCarriesFocusedTag ==
    [][last'.op = "focus_workspace" /\ Len(actions') > Len(actions)
          => \A k \in (Len(actions) + 1)..Len(actions') :
                 actions'[k].kind = "SetCurrentTags"
                    => actions'[k].tag = focused_tag(Mgr)']_vars

\* C34: MoveWindow and ResizeWindow share one limiter for all windows: whether
\* an event is admitted depends only on its timestamp and on the limiter, which
\* holds the timestamp of the last admitted event of either kind and any
\* window; every admitted event advances the limiter to its timestamp, even
\* when the handler reports no change, and a dropped one leaves it alone.
C34_OneLimiterForAllDrags ==
    [][last'.op \in DragOps
          => /\ \A h \in DragHandles, p \in DragPoints :
                    /\ process_MoveWindow(windows, frame_rate_limitor, h,
                                          drag'.time, p[1], p[2]).handed = drag'.handed
                    /\ process_ResizeWindow(windows, frame_rate_limitor, h,
                                            drag'.time, p[1], p[2]).handed = drag'.handed
             /\ frame_rate_limitor' = IF drag'.handed THEN drag'.time
                                      ELSE frame_rate_limitor]_vars

\* C34 witness: a ResizeWindow event for a handle no window has was admitted
\* after an earlier admitted event; the handler reported no change and the
\* limiter holds the event's timestamp.
C34_Witness ==
    /\ last.op = "ResizeWindow" /\ last.handle = 9
    /\ drag = [time |-> 1020, handed |-> TRUE]
    /\ ~last.ret
    /\ frame_rate_limitor = 1020
    /\ \E i \in 1..Len(windows) : windows[i].xyhw # RegistryH.windows[i].xyhw

\* the child with this serial has an entry in the table
Tracked(c) == \E pid \in DOMAIN children : children[pid] = c

\* C32: under the cooperative protocol (the signal sets the flag; the caller
\* observes the flag, calls reap, then clears the flag) every tracked child
\* that exits is eventually removed from the table, in every interleaving of
\* child exits with the caller's steps.
C32_ExitedChildEventuallyReaped ==
    \A c \in Serials :
        (processes[c].status = "exited" /\ Tracked(c)) ~> ~Tracked(c)

\* C35: with several StateSockets using the same path in any order of listen
\* and shutdown calls, a StateSocket that has listened and has not been shut
\* down has its socket file at its path: no other instance's listen or
\* shutdown removes or replaces it.
C35_ListeningSocketKeepsItsFile ==
    /\ listener.some => files[socket_file] = BoundSocket
    /\ old_socket.listener => files[old_socket.socket_file] = OldSocket

====
